---- MODULE Spec2Model ----
(***************************************************************************)
(* Model of generate_project.py: a script that writes a synthetic C++      *)
(* source tree and its compile_commands.json.                              *)
(*                                                                         *)
(* Paths, file names, file contents and command lines are strings, built   *)
(* and taken apart the way the script does it (f-strings, pathlib "/",     *)
(* relative_to, removesuffix, endswith, list2cmdline).  The file system is *)
(* the set of existing directories, the text files with their contents,   *)
(* and the JSON files with the value json.dump was given.  Every system    *)
(* call of the script may fail; a failure raises OSError at that point.    *)
(***************************************************************************)
EXTENDS Integers, Sequences, FiniteSets, TLC

\* ---------------------------------------------------------------- bounds
MaxSources == 3
MaxHeaders == 11
MaxSubdirs == 11

\* ------------------------------------------------------- string helpers
\* c in s, for a one-character string c
Contains(s, c) == \E k \in 1..Len(s) : SubSeq(s, k, k) = c

\* str.startswith
StartsWith(s, pre) == Len(s) >= Len(pre) /\ SubSeq(s, 1, Len(pre)) = pre

\* str.endswith
EndsWith(s, suf) == Len(s) >= Len(suf) /\ SubSeq(s, Len(s) - Len(suf) + 1, Len(s)) = suf

\* str.removesuffix
RemoveSuffix(s, suf) ==
    IF suf # "" /\ EndsWith(s, suf) THEN SubSeq(s, 1, Len(s) - Len(suf)) ELSE s

\* pathlib: base / name
Join(base, name) == base \o "/" \o name

\* p is base or lies below it
Under(p, base) == p = base \/ StartsWith(p, base \o "/")

\* pathlib: p.relative_to(base).as_posix(), for p strictly below base
RelativeTo(p, base) == SubSeq(p, Len(base) + 2, Len(p))

\* position of the last "/" of p (0 when there is none)
LastSlash(p) ==
    LET At == {k \in 1..Len(p) : SubSeq(p, k, k) = "/"}
    IN IF At = {} THEN 0 ELSE CHOOSE k \in At : \A m \in At : m <= k

\* pathlib: p.parent
Parent(p) == IF LastSlash(p) <= 1 THEN "/" ELSE SubSeq(p, 1, LastSlash(p) - 1)

\* code-point order of the characters that occur in the generated paths
Alphabet == "/0123456789_abcdefghijklmnopqrstuvwxyz"
Ord(c) == IF Contains(Alphabet, c)
          THEN CHOOSE k \in 1..Len(Alphabet) : SubSeq(Alphabet, k, k) = c
          ELSE 0

\* first position where a and b differ (beyond the shorter one if none)
FirstDiff(a, b) ==
    LET n == IF Len(a) < Len(b) THEN Len(a) ELSE Len(b)
        D == {k \in 1..n : SubSeq(a, k, k) # SubSeq(b, k, k)}
    IN IF D = {} THEN n + 1 ELSE CHOOSE k \in D : \A m \in D : k <= m

\* pathlib.Path.__lt__ for paths of equal depth: string order of the parts
PathLess(a, b) ==
    LET k == FirstDiff(a, b)
    IN IF k > Len(a) THEN Len(a) < Len(b)
       ELSE IF k > Len(b) THEN FALSE
       ELSE Ord(SubSeq(a, k, k)) < Ord(SubSeq(b, k, k))

\* sorted(paths)
RECURSIVE Sorted(_)
Sorted(S) ==
    IF S = {} THEN <<>>
    ELSE LET m == CHOOSE x \in S : \A y \in S : ~PathLess(y, x)
         IN <<m>> \o Sorted(S \ {m})

\* elements of a sequence
Range(q) == {q[k] : k \in 1..Len(q)}

\* ------------------------------------------------------------ the state
VARIABLES
    args,              \* argparse result: compiler, sources, headers, subdirs, name
    compiler_is_file,  \* os.path.isfile(COMPILER_PATH)
    dirs,              \* directories that exist
    files,             \* text files that exist: path -> contents
    json_files,        \* JSON files that exist: path -> [complete, value]
    pc,                \* where the process is
    i,                 \* loop index of generate_sources / generate_headers
    all_sources,       \* generate_sources: list of the paths written
    all_include_dirs,  \* generate_headers: set of the header directories
    include_dirs,      \* the list generate_headers returned
    error,             \* the exception being propagated ("" when none)
    cleanup_failed,    \* the rmtree of the except clause met errors (ignored)
    stdout,            \* the lines printed
    exit_code          \* the process's exit status (-1 while it runs)

vars == <<args, compiler_is_file, dirs, files, json_files, pc, i, all_sources,
          all_include_dirs, include_dirs, error, cleanup_failed, stdout, exit_code>>

fs == <<dirs, files, json_files>>
locals == <<i, all_sources, all_include_dirs, include_dirs>>

\* --------------------------------------------- module-level configuration
COMPILER_PATH == args.compiler
NUMBER_OF_SOURCES == args.sources
NUMBER_OF_HEADERS == args.headers
SUBDIR_COUNT == args.subdirs

PROJECT_NAME ==
    IF args.name # "" THEN args.name
    ELSE "BigProject_" \o ToString(NUMBER_OF_SOURCES) \o "_" \o ToString(NUMBER_OF_HEADERS)

\* mutant: the rounding term loses its -1
SOURCES_PER_DIR_OffByOne == (NUMBER_OF_SOURCES + SUBDIR_COUNT) \div SUBDIR_COUNT
SOURCES_PER_DIR == (NUMBER_OF_SOURCES + SUBDIR_COUNT - 1) \div SUBDIR_COUNT
\* mutant: the bucket size is rounded down
HEADERS_PER_DIR_Floor ==
    IF NUMBER_OF_HEADERS \div SUBDIR_COUNT = 0 THEN 1 ELSE NUMBER_OF_HEADERS \div SUBDIR_COUNT
HEADERS_PER_DIR == (NUMBER_OF_HEADERS + SUBDIR_COUNT - 1) \div SUBDIR_COUNT

\* --output is not given: pathlib.Path.cwd()
ROOT_DIR == "/w"
PROJECT_DIR == Join(ROOT_DIR, PROJECT_NAME)
SOURCES_DIR == Join(PROJECT_DIR, "sources")
INCLUDES_DIR == Join(PROJECT_DIR, "includes")

get_source_subdir(n) == "subdir_" \o ToString(n \div SOURCES_PER_DIR)

get_include_subdir(n) == "subdir_" \o ToString(n \div HEADERS_PER_DIR)

\* mutant: the header index is not reduced modulo the header count
get_source_template_NoWrap(n) ==
    LET header_i == n
    IN "#include <file_" \o ToString(header_i) \o ".h>\n\nstatic void test_"
       \o ToString(n) \o "(int a, int b) {\n  foo_" \o ToString(header_i)
       \o "(b, a);\n}"

get_source_template(n) ==
    LET header_i == n % NUMBER_OF_HEADERS
    IN "#include <file_" \o ToString(header_i) \o ".h>\n\nstatic void test_"
       \o ToString(n) \o "(int a, int b) {\n  foo_" \o ToString(header_i)
       \o "(b, a);\n}"

get_header_template(n) ==
    "#pragma once\n\n// Some function\nvoid foo_" \o ToString(n) \o "(int a, int b);"

\* ------------------------------------------------------ file system calls
\* os.makedirs(p): the directories it creates (p and its missing ancestors)
RECURSIVE MakeDirs(_)
MakeDirs(p) ==
    IF p \in dirs \/ p = ROOT_DIR \/ p = "/" THEN {} ELSE {p} \cup MakeDirs(Parent(p))

\* shutil.rmtree(root): what is left of a path -> x map and of the directories
RmtreeDirs(root) == {d \in dirs : ~Under(d, root)}
RmtreeFiles(f, root) == [p \in {q \in DOMAIN f : ~Under(q, root)} |-> f[p]]

\* open(p, "w") followed by a complete write of text
WriteFile(f, p, text) == [q \in DOMAIN f \cup {p} |-> IF q = p THEN text ELSE f[q]]

\* --------------------------------------------------- compile database
\* subprocess.list2cmdline, one argument (no argument here holds a
\* backslash or a double quote, the two characters it escapes)
QuoteArg(arg) ==
    IF arg = "" \/ Contains(arg, " ") \/ Contains(arg, "\t")
    THEN "\"" \o arg \o "\"" ELSE arg

\* subprocess.list2cmdline
RECURSIVE list2cmdline(_)
list2cmdline(command) ==
    IF Len(command) = 0 THEN ""
    ELSE IF Len(command) = 1 THEN QuoteArg(command[1])
    ELSE QuoteArg(command[1]) \o " " \o list2cmdline(Tail(command))

\* mutant: the compiler path is compared, not its end
IsClangCl_Equal == COMPILER_PATH = "clang-cl.exe"

\* COMPILER_PATH.endswith("clang-cl.exe")
IsClangCl == EndsWith(COMPILER_PATH, "clang-cl.exe")

\* mutant: only the first header directory gets a flag
include_flags_First(headers) ==
    LET s == Sorted(Range(headers))
    IN [k \in 1..(IF Len(s) = 0 THEN 0 ELSE 1) |-> "-I" \o RelativeTo(s[k], PROJECT_DIR)]

\* the -I flags, one per header directory
include_flags(headers) ==
    LET s == Sorted(Range(headers))
    IN [k \in 1..Len(s) |-> "-I" \o RelativeTo(s[k], PROJECT_DIR)]

\* the argument list of one source's command
Command(source, flags) ==
    LET rel == RelativeTo(source, PROJECT_DIR)
    IN IF IsClangCl
       THEN <<COMPILER_PATH, "--driver-mode=cl", "/c",
              "/Foobj/" \o RemoveSuffix(rel, ".cpp") \o ".obj",
              "/Fdobj/" \o RemoveSuffix(rel, ".cpp") \o ".pdb">> \o flags
       ELSE <<COMPILER_PATH, "-c", rel>> \o flags

\* mutant: "file" is the path as generated, not made relative
CompileEntry_Absolute(source, flags) ==
    [directory |-> PROJECT_DIR,
     command   |-> list2cmdline(Command(source, flags)),
     file      |-> source]

\* one element of compile_commands
CompileEntry(source, flags) ==
    [directory |-> PROJECT_DIR,
     command   |-> list2cmdline(Command(source, flags)),
     file      |-> RelativeTo(source, PROJECT_DIR)]

\* the list handed to json.dump
compile_commands(sources, headers) ==
    [k \in 1..Len(sources) |-> CompileEntry(sources[k], include_flags(headers))]

CompileCommandsPath == Join(PROJECT_DIR, "compile_commands.json")

\* ------------------------------------------------------------ initially
Compilers == {"/usr/bin/g++", "clang-cl.exe", "C:/Program Files/LLVM/bin/clang-cl.exe"}
\* --name is not given: the name is generated from the counts
Names == {""}

\* what can be at the project path before a run: nothing; a project tree put
\* there earlier, with files of the names a run writes but other contents and
\* files a run with these arguments does not write; or a directory with
\* somebody's files.  The output of the run before is reached by Rerun.
PriorKinds == {"absent", "old_run", "foreign"}

PriorDirs(kind, P) ==
    CASE kind = "absent"  -> {}
      [] kind = "old_run" -> {P, Join(P, "sources"), Join(P, "sources/subdir_0"),
                              Join(P, "sources/subdir_7"), Join(P, "includes"),
                              Join(P, "includes/subdir_0")}
      [] kind = "foreign" -> {P, Join(P, "obj")}

PriorFiles(kind, P) ==
    CASE kind = "absent"  -> <<>>
      [] kind = "old_run" ->
            (Join(P, "sources/subdir_0/file_0.cpp") :> "#include <file_9.h>\n")
         @@ (Join(P, "sources/subdir_7/file_70.cpp") :> "#include <file_0.h>")
         @@ (Join(P, "includes/subdir_0/file_0.h") :> "#pragma once")
      [] kind = "foreign" -> (Join(P, "obj/notes.txt") :> "notes")

PriorJson(kind, P) ==
    CASE kind = "old_run" ->
            (Join(P, "compile_commands.json") :>
                [complete |-> TRUE,
                 value |-> <<[directory |-> P, command |-> "cc -c old.cpp",
                              file |-> "old.cpp"]>>])
      [] OTHER -> <<>>

Init ==
    /\ args \in [compiler : Compilers, sources : 0..MaxSources,
                 headers : 0..MaxHeaders, subdirs : 0..MaxSubdirs, name : Names]
    /\ compiler_is_file \in BOOLEAN
    /\ \E kind \in PriorKinds :
          /\ dirs = PriorDirs(kind, PROJECT_DIR)
          /\ files = PriorFiles(kind, PROJECT_DIR)
          /\ json_files = PriorJson(kind, PROJECT_DIR)
    /\ pc = "module"
    /\ i = 0
    /\ all_sources = <<>>
    /\ all_include_dirs = {}
    /\ include_dirs = <<>>
    /\ error = ""
    /\ cleanup_failed = FALSE
    /\ stdout = <<>>
    /\ exit_code = -1

\* ------------------------------------------------------------- the steps
\* an exception leaves the try block of generate_project
Raise(e) ==
    /\ error' = e
    /\ pc' = "cleanup"
    /\ UNCHANGED <<args, compiler_is_file, locals, cleanup_failed, stdout, exit_code>>

\* the process ends
Exit(code) ==
    /\ exit_code' = code
    /\ pc' = "exited"
    /\ i' = 0
    /\ all_sources' = <<>>
    /\ all_include_dirs' = {}
    /\ include_dirs' = <<>>

\* lines 18-32: the arguments are resolved; SUBDIR_COUNT = 0 divides by zero
ModuleLevel ==
    /\ pc = "module"
    /\ IF SUBDIR_COUNT = 0
       THEN /\ error' = "ZeroDivisionError"
            /\ Exit(1)
       ELSE /\ pc' = "main"
            /\ UNCHANGED <<locals, error, exit_code>>
    /\ UNCHANGED <<args, compiler_is_file, fs, cleanup_failed, stdout>>

\* mutant: the compiler path is not checked
main_Unchecked ==
    /\ pc = "main"
    /\ stdout' = Append(stdout, "Generating project at " \o PROJECT_DIR)
    /\ pc' = "remove"
    /\ UNCHANGED <<locals, exit_code>>
    /\ UNCHANGED <<args, compiler_is_file, fs, error, cleanup_failed>>

\* main, up to the call of generate_project
main ==
    /\ pc = "main"
    /\ IF ~compiler_is_file
       THEN /\ stdout' = Append(stdout, "No compiler at " \o COMPILER_PATH)
            /\ Exit(1)
       ELSE /\ stdout' = Append(stdout, "Generating project at " \o PROJECT_DIR)
            /\ pc' = "remove"
            /\ UNCHANGED <<locals, exit_code>>
    /\ UNCHANGED <<args, compiler_is_file, fs, error, cleanup_failed>>

\* mutant: an existing project directory is kept
RemoveExisting_Keep ==
    /\ pc = "remove"
    /\ pc' = "mkproject"
    /\ UNCHANGED <<stdout, fs>>
    /\ UNCHANGED <<args, compiler_is_file, locals, error, cleanup_failed, exit_code>>

\* generate_project: if os.path.exists(PROJECT_DIR): shutil.rmtree(PROJECT_DIR)
RemoveExisting ==
    /\ pc = "remove"
    /\ IF PROJECT_DIR \in dirs
       THEN /\ stdout' = Append(stdout, "Removing existing project")
            /\ dirs' = RmtreeDirs(PROJECT_DIR)
            /\ files' = RmtreeFiles(files, PROJECT_DIR)
            /\ json_files' = RmtreeFiles(json_files, PROJECT_DIR)
       ELSE UNCHANGED <<stdout, fs>>
    /\ pc' = "mkproject"
    /\ UNCHANGED <<args, compiler_is_file, locals, error, cleanup_failed, exit_code>>

\* the rmtree of an existing project fails
RemoveExistingFails ==
    /\ pc = "remove"
    /\ PROJECT_DIR \in dirs
    /\ stdout' = Append(stdout, "Removing existing project")
    /\ error' = "OSError"
    /\ pc' = "cleanup"
    /\ UNCHANGED <<args, compiler_is_file, fs, locals, cleanup_failed, exit_code>>

\* generate_project: os.makedirs(PROJECT_DIR, exist_ok=True)
MakeProjectDir ==
    /\ pc = "mkproject"
    /\ \/ /\ dirs' = dirs \cup MakeDirs(PROJECT_DIR)
          /\ pc' = "generate_sources"
          /\ UNCHANGED <<args, compiler_is_file, files, json_files, locals, error,
                         cleanup_failed, stdout, exit_code>>
       \/ /\ Raise("OSError")
          /\ UNCHANGED fs

\* generate_sources: os.makedirs(SOURCES_DIR); all_sources = []
BeginSources ==
    /\ pc = "generate_sources"
    /\ IF SOURCES_DIR \in dirs
       THEN Raise("FileExistsError") /\ UNCHANGED fs
       ELSE \/ /\ dirs' = dirs \cup MakeDirs(SOURCES_DIR)
               /\ i' = 0
               /\ all_sources' = <<>>
               /\ pc' = "sources"
               /\ UNCHANGED <<args, compiler_is_file, files, json_files, all_include_dirs,
                              include_dirs, error, cleanup_failed, stdout, exit_code>>
            \/ Raise("OSError") /\ UNCHANGED fs

SourcePath(n) ==
    Join(Join(SOURCES_DIR, get_source_subdir(n)), "file_" \o ToString(n) \o ".cpp")

\* generate_sources: one iteration of the loop
WriteSource ==
    /\ pc = "sources"
    /\ i < NUMBER_OF_SOURCES
    /\ LET subdir == Join(SOURCES_DIR, get_source_subdir(i))
           source_path == SourcePath(i)
       IN IF NUMBER_OF_HEADERS = 0
          THEN \* get_source_template divides by zero, the file being open
               /\ dirs' = dirs \cup MakeDirs(subdir)
               /\ files' = WriteFile(files, source_path, "")
               /\ Raise("ZeroDivisionError")
               /\ UNCHANGED json_files
          ELSE /\ dirs' = dirs \cup MakeDirs(subdir)
               /\ files' = WriteFile(files, source_path, get_source_template(i))
               /\ all_sources' = Append(all_sources, source_path)
               /\ i' = i + 1
               /\ UNCHANGED <<args, compiler_is_file, json_files, pc, all_include_dirs,
                              include_dirs, error, cleanup_failed, stdout, exit_code>>

\* one iteration of generate_sources fails: in os.makedirs, in open, or in
\* the write that closing the file flushes
WriteSourceFails ==
    /\ pc = "sources"
    /\ i < NUMBER_OF_SOURCES
    /\ LET subdir == Join(SOURCES_DIR, get_source_subdir(i))
       IN \E at \in {"makedirs", "open", "write"} :
             /\ dirs' = IF at = "makedirs" THEN dirs ELSE dirs \cup MakeDirs(subdir)
             /\ files' = IF at = "write" THEN WriteFile(files, SourcePath(i), "") ELSE files
             /\ UNCHANGED json_files
             /\ Raise("OSError")

\* generate_sources returns; generate_headers: os.makedirs(INCLUDES_DIR)
BeginHeaders ==
    /\ pc = "sources"
    /\ i = NUMBER_OF_SOURCES
    /\ IF INCLUDES_DIR \in dirs
       THEN Raise("FileExistsError") /\ UNCHANGED fs
       ELSE \/ /\ dirs' = dirs \cup MakeDirs(INCLUDES_DIR)
               /\ i' = 0
               /\ all_include_dirs' = {}
               /\ pc' = "headers"
               /\ UNCHANGED <<args, compiler_is_file, files, json_files, all_sources,
                              include_dirs, error, cleanup_failed, stdout, exit_code>>
            \/ Raise("OSError") /\ UNCHANGED fs

HeaderPath(n) ==
    Join(Join(INCLUDES_DIR, get_include_subdir(n)), "file_" \o ToString(n) \o ".h")

\* generate_headers: one iteration of the loop
WriteHeader ==
    /\ pc = "headers"
    /\ i < NUMBER_OF_HEADERS
    /\ LET subdir == Join(INCLUDES_DIR, get_include_subdir(i))
       IN /\ dirs' = dirs \cup MakeDirs(subdir)
          /\ all_include_dirs' = all_include_dirs \cup {subdir}
          /\ files' = WriteFile(files, HeaderPath(i), get_header_template(i))
          /\ i' = i + 1
    /\ UNCHANGED <<args, compiler_is_file, json_files, pc, all_sources, include_dirs,
                   error, cleanup_failed, stdout, exit_code>>

\* one iteration of generate_headers fails
WriteHeaderFails ==
    /\ pc = "headers"
    /\ i < NUMBER_OF_HEADERS
    /\ LET subdir == Join(INCLUDES_DIR, get_include_subdir(i))
       IN \E at \in {"makedirs", "open", "write"} :
             /\ dirs' = IF at = "makedirs" THEN dirs ELSE dirs \cup MakeDirs(subdir)
             /\ files' = IF at = "write" THEN WriteFile(files, HeaderPath(i), "") ELSE files
             /\ UNCHANGED json_files
             /\ Raise("OSError")

\* mutant: the set is returned as a list in some other order
generate_headers_result_Unsorted ==
    LET s == Sorted(all_include_dirs) IN [k \in 1..Len(s) |-> s[Len(s) + 1 - k]]

\* generate_headers: sorted(all_include_dirs)
generate_headers_result == Sorted(all_include_dirs)

\* generate_headers returns
ReturnHeaders ==
    /\ pc = "headers"
    /\ i = NUMBER_OF_HEADERS
    /\ include_dirs' = generate_headers_result
    /\ pc' = "compile_commands"
    /\ UNCHANGED <<args, compiler_is_file, fs, i, all_sources, all_include_dirs, error,
                   cleanup_failed, stdout, exit_code>>

\* generate_compile_commands, then generate_project and main return
generate_compile_commands ==
    /\ pc = "compile_commands"
    /\ json_files' = WriteFile(json_files, CompileCommandsPath,
                               [complete |-> TRUE,
                                value |-> compile_commands(all_sources, include_dirs)])
    /\ Exit(0)
    /\ UNCHANGED <<args, compiler_is_file, dirs, files, error, cleanup_failed, stdout>>

\* generate_compile_commands fails: in open, or in json.dump with the file
\* created and not completely written
CompileCommandsFails ==
    /\ pc = "compile_commands"
    /\ \E at \in {"open", "dump"} :
          /\ json_files' = IF at = "open" THEN json_files
                           ELSE WriteFile(json_files, CompileCommandsPath,
                                          [complete |-> FALSE, value |-> <<>>])
          /\ UNCHANGED <<dirs, files>>
          /\ Raise("OSError")

\* mutant: the except clause removes the sources only
CleanupTarget_Sources == SOURCES_DIR

\* the directory the except clause removes
CleanupTarget == PROJECT_DIR

\* generate_project, the except clause: rmtree(ignore_errors=True); raise.
\* The uncaught exception ends the process with status 1.
Cleanup ==
    /\ pc = "cleanup"
    /\ stdout' = Append(stdout, "Project generation failed, cleaning up...")
    /\ \/ /\ dirs' = RmtreeDirs(CleanupTarget)
          /\ files' = RmtreeFiles(files, CleanupTarget)
          /\ json_files' = RmtreeFiles(json_files, CleanupTarget)
          /\ UNCHANGED cleanup_failed
       \/ /\ PROJECT_DIR \in dirs
          /\ cleanup_failed' = TRUE
          /\ UNCHANGED fs
    /\ Exit(1)
    /\ UNCHANGED <<args, compiler_is_file, error>>

\* the generator is started again with the same arguments, after a run that
\* left behind nothing or a complete project
Rerun ==
    /\ pc = "exited"
    /\ ~cleanup_failed
    /\ pc' = "module"
    /\ error' = ""
    /\ cleanup_failed' = FALSE
    /\ stdout' = <<>>
    /\ exit_code' = -1
    /\ UNCHANGED <<args, compiler_is_file, fs, locals>>

Next ==
    \/ ModuleLevel
    \/ main
    \/ RemoveExisting
    \/ RemoveExistingFails
    \/ MakeProjectDir
    \/ BeginSources
    \/ WriteSource
    \/ WriteSourceFails
    \/ BeginHeaders
    \/ WriteHeader
    \/ WriteHeaderFails
    \/ ReturnHeaders
    \/ generate_compile_commands
    \/ CompileCommandsFails
    \/ Cleanup
    \/ Rerun

Spec == Init /\ [][Next]_vars

\* ======================================================================
\* Properties
\* ======================================================================
S == NUMBER_OF_SOURCES
H == NUMBER_OF_HEADERS
D == SUBDIR_COUNT

\* the run ended successfully
Done == pc = "exited" /\ exit_code = 0

\* the run got as far as generate_project
GenerationStarted ==
    Len(stdout) > 0 /\ StartsWith(stdout[1], "Generating project at")

\* the run found and removed an existing project directory
RemovedExisting == \E k \in 1..Len(stdout) : stdout[k] = "Removing existing project"

\* the except clause of generate_project ran
GenerationFailed ==
    \E k \in 1..Len(stdout) : stdout[k] = "Project generation failed, cleaning up..."

\* ceil(a / b), from its definition
CeilDiv(a, b) == CHOOSE q \in 0..a : q * b >= a /\ (q = 0 \/ (q - 1) * b < a)

\* first position of sub in s at or after from (0 when there is none)
IndexFrom(s, sub, from) ==
    LET At == {k \in from..(Len(s) - Len(sub) + 1) : SubSeq(s, k, k + Len(sub) - 1) = sub}
    IN IF At = {} THEN 0 ELSE CHOOSE k \in At : \A m \in At : k <= m

\* the text of s between the first a and the next b
Between(s, a, b) ==
    LET from == IndexFrom(s, a, 1) + Len(a)
        to == IndexFrom(s, b, from)
    IN IF IndexFrom(s, a, 1) = 0 \/ to = 0 THEN "" ELSE SubSeq(s, from, to - 1)

\* what a C++ reader finds in a generated file
IncludedHeader(text) == Between(text, "#include <", ">")
CalledFunction(text) == Between(text, "{\n  ", "(")
DeclaredFunction(text) == Between(text, "void ", "(")

\* the arguments a shell gets from a command line: an argument that opens
\* with a double quote runs to the closing one, any other to the next blank
RECURSIVE SplitFrom(_, _)
SplitFrom(s, start) ==
    IF start > Len(s) THEN <<>>
    ELSE LET quoted == SubSeq(s, start, start) = "\""
             stop == IF quoted THEN IndexFrom(s, "\"", start + 1) ELSE IndexFrom(s, " ", start)
             last == IF stop = 0 THEN Len(s) ELSE IF quoted THEN stop ELSE stop - 1
             arg == IF quoted THEN SubSeq(s, start + 1, last - 1) ELSE SubSeq(s, start, last)
         IN <<arg>> \o SplitFrom(s, last + 2)

Argv(cmd) == SplitFrom(cmd, 1)

IsIFlag(tok) == StartsWith(tok, "-I")
\* the -I directories of a command, in order
IncludeDirsOf(cmd) ==
    LET fl == SelectSeq(Argv(cmd), IsIFlag) IN [k \in 1..Len(fl) |-> SubSeq(fl[k], 3, Len(fl[k]))]

\* the compile database on disk (<<>> when there is none)
Database ==
    IF CompileCommandsPath \in DOMAIN json_files /\ json_files[CompileCommandsPath].complete
    THEN json_files[CompileCommandsPath].value ELSE <<>>

\* the files directly in directory d
FilesIn(d) == {f \in DOMAIN files : Parent(f) = d}
\* the subdirectories directly in directory d
SubdirsOf(d) == {x \in dirs : x # "/" /\ Parent(x) = d}

SrcFile(n) == "file_" \o ToString(n) \o ".cpp"
HdrFile(n) == "file_" \o ToString(n) \o ".h"
Subdir(k) == "subdir_" \o ToString(k)

\* C1: a successful run leaves exactly the S sources file_0.cpp..file_{S-1}.cpp
\* and the H headers file_0.h..file_{H-1}.h, source i in
\* sources/subdir_{i div ceil(S/D)} and header j in includes/subdir_{j div ceil(H/D)};
\* every populated bucket holds ceil(S/D) sources (ceil(H/D) headers), except
\* the last populated one, which holds between 1 and that many.
C1_Layout ==
    Done =>
      LET sp == CeilDiv(S, D)
          hp == CeilDiv(H, D)
          src == {Join(Join(SOURCES_DIR, Subdir(n \div sp)), SrcFile(n)) : n \in 0..(S - 1)}
          hdr == {Join(Join(INCLUDES_DIR, Subdir(n \div hp)), HdrFile(n)) : n \in 0..(H - 1)}
      IN /\ DOMAIN files = src \cup hdr
         /\ Cardinality(src) = S
         /\ Cardinality(hdr) = H
         /\ \A f \in DOMAIN files : files[f] # ""
         /\ \A b \in SubdirsOf(SOURCES_DIR) :
               \/ Cardinality(FilesIn(b)) = sp
               \/ /\ Join(b, SrcFile(S - 1)) \in DOMAIN files
                  /\ Cardinality(FilesIn(b)) \in 1..sp
         /\ \A b \in SubdirsOf(INCLUDES_DIR) :
               \/ Cardinality(FilesIn(b)) = hp
               \/ /\ Join(b, HdrFile(H - 1)) \in DOMAIN files
                  /\ Cardinality(FilesIn(b)) \in 1..hp

\* a successful run whose last source bucket and last header bucket are
\* smaller than the others
C1_Witness ==
    /\ Done
    /\ S = 3 /\ H = 3 /\ D = 2
    /\ Cardinality(FilesIn(Join(SOURCES_DIR, "subdir_1"))) = 1
    /\ Cardinality(FilesIn(Join(INCLUDES_DIR, "subdir_0"))) = 2

\* C2: the generated source file_i.cpp includes file_{i mod H}.h and calls
\* foo_{i mod H}, the function that header declares.
C2_HeaderCycle ==
    Done =>
      \A n \in 0..(S - 1) :
         \E f \in DOMAIN files :
            /\ Under(f, SOURCES_DIR)
            /\ EndsWith(f, "/" \o SrcFile(n))
            /\ IncludedHeader(files[f]) = HdrFile(n % H)
            /\ CalledFunction(files[f]) = "foo_" \o ToString(n % H)
            /\ \E h \in DOMAIN files :
                  /\ Under(h, INCLUDES_DIR)
                  /\ EndsWith(h, "/" \o IncludedHeader(files[f]))
                  /\ DeclaredFunction(files[h]) = CalledFunction(files[f])

\* a successful run where the header index wraps around
C2_Witness ==
    /\ Done
    /\ S = 3 /\ H = 2
    /\ \E f \in DOMAIN files :
          EndsWith(f, "/file_2.cpp") /\ IncludedHeader(files[f]) = "file_0.h"

\* C3: after a successful run compile_commands.json holds exactly S entries,
\* entry k for file_{k}.cpp; the "file" values are pairwise distinct and each
\* is the project-relative path of a source file that exists on disk.
C3_Database ==
    Done =>
      /\ CompileCommandsPath \in DOMAIN json_files
      /\ json_files[CompileCommandsPath].complete
      /\ Len(Database) = S
      /\ \A k \in 1..Len(Database) :
            /\ EndsWith(Database[k].file, "/" \o SrcFile(k - 1))
            /\ StartsWith(Database[k].file, "sources/")
            /\ Join(PROJECT_DIR, Database[k].file) \in DOMAIN files
            /\ files[Join(PROJECT_DIR, Database[k].file)] # ""
      /\ \A k, m \in 1..Len(Database) : k # m => Database[k].file # Database[m].file

\* a successful run with several sources in several subdirectories
C3_Witness ==
    /\ Done
    /\ S = 3 /\ D = 2
    /\ Len(Database) = 3
    /\ Database[3].file = "sources/subdir_1/file_2.cpp"

\* C4: if the compiler path is not an existing file, no step of the process
\* changes the file system, the removal, generation and cleanup steps are
\* never reached, and the process ends with status 1.
C4_MissingCompiler ==
    [][~compiler_is_file =>
          /\ fs' = fs
          /\ pc' \in {"module", "main", "exited"}
          /\ (pc' = "exited" => exit_code' = 1)]_vars

\* a run without compiler has ended, the project directory of an earlier run
\* still there
C4_Witness ==
    /\ pc = "exited"
    /\ ~compiler_is_file
    /\ exit_code = 1
    /\ stdout = <<"No compiler at " \o COMPILER_PATH>>
    /\ Join(PROJECT_DIR, "sources/subdir_7/file_70.cpp") \in DOMAIN files

\* nothing exists at or below the project path
ProjectAbsent ==
    /\ \A x \in dirs : ~Under(x, PROJECT_DIR)
    /\ \A f \in DOMAIN files : ~Under(f, PROJECT_DIR)
    /\ \A f \in DOMAIN json_files : ~Under(f, PROJECT_DIR)

\* C5: if a step of generation fails and the cleanup deletion succeeds, the
\* process ends with the project directory absent and the original error
\* propagated (exit status not 0); a run that got to generation never ends
\* with a partially written project directory.
C5_Cleanup ==
    /\ (pc = "cleanup" => error # "")
    /\ (pc = "exited" /\ GenerationFailed /\ ~cleanup_failed) =>
          (ProjectAbsent /\ error # "" /\ exit_code # 0)
    /\ (pc = "exited" /\ GenerationStarted /\ ~cleanup_failed) =>
          (ProjectAbsent \/ (exit_code = 0 /\ error = "" /\ ~GenerationFailed))

\* a run that removed an existing project and then failed while its first
\* source file was open has ended, nothing left
C5_Witness ==
    /\ pc = "exited"
    /\ RemovedExisting
    /\ GenerationFailed
    /\ error = "ZeroDivisionError"
    /\ ~cleanup_failed
    /\ exit_code = 1
    /\ ProjectAbsent

\* the tree a run with the current arguments writes, from the arguments alone
OutputDirs ==
    {PROJECT_DIR, SOURCES_DIR, INCLUDES_DIR}
    \cup {Parent(SourcePath(n)) : n \in 0..(S - 1)}
    \cup {Parent(HeaderPath(n)) : n \in 0..(H - 1)}

OutputFiles ==
    [f \in {SourcePath(n) : n \in 0..(S - 1)} \cup {HeaderPath(n) : n \in 0..(H - 1)} |->
        IF \E n \in 0..(S - 1) : f = SourcePath(n)
        THEN get_source_template(CHOOSE n \in 0..(S - 1) : f = SourcePath(n))
        ELSE get_header_template(CHOOSE n \in 0..(H - 1) : f = HeaderPath(n))]

OutputJson ==
    CompileCommandsPath :>
        [complete |-> TRUE,
         value |-> compile_commands([n \in 1..S |-> SourcePath(n - 1)],
                                    Sorted({Parent(HeaderPath(n)) : n \in 0..(H - 1)}))]

\* C6: the project directory after a successful run is the same set of
\* directories and files with the same contents whatever was at the project
\* path before the run; nothing of an old directory survives.
C6_Replacement ==
    Done =>
      /\ dirs = OutputDirs
      /\ files = OutputFiles
      /\ json_files = OutputJson

\* a successful run that found a project directory and replaced it
C6_Witness ==
    /\ Done
    /\ RemovedExisting
    /\ S = 2 /\ H = 1
    /\ files = OutputFiles

\* the compiler path ends with "clang-cl.exe", read off the string
EndsWithClangCl ==
    \E k \in 1..Len(COMPILER_PATH) : SubSeq(COMPILER_PATH, k, Len(COMPILER_PATH)) = "clang-cl.exe"

\* C7: every command of a run has the same form: with a compiler path that
\* ends with "clang-cl.exe" it holds --driver-mode=cl, /c, /Foobj/<p>.obj and
\* /Fdobj/<p>.pdb, <p> the source's relative path without ".cpp"; otherwise
\* it holds -c followed by the source's relative path.
C7_CommandForm ==
    Done =>
      \A k \in 1..Len(Database) :
         LET argv == Argv(Database[k].command)
             file == Database[k].file
             p == SubSeq(file, 1, Len(file) - 4)
             has(a) == \E m \in 1..Len(argv) : argv[m] = a
         IN /\ argv[1] = COMPILER_PATH
            /\ p \o ".cpp" = file
            /\ IF EndsWithClangCl
               THEN /\ has("--driver-mode=cl")
                    /\ has("/c")
                    /\ has("/Foobj/" \o p \o ".obj")
                    /\ has("/Fdobj/" \o p \o ".pdb")
                    /\ ~has("-c")
               ELSE /\ \E m \in 1..(Len(argv) - 1) : argv[m] = "-c" /\ argv[m + 1] = file
                    /\ ~has("--driver-mode=cl")
                    /\ ~has("/c")

\* a successful run with a clang-cl.exe that lies in a directory
C7_Witness ==
    /\ Done
    /\ COMPILER_PATH = "C:/Program Files/LLVM/bin/clang-cl.exe"
    /\ Len(Database) = 2
    /\ \E m \in 1..Len(Argv(Database[2].command)) :
          Argv(Database[2].command)[m] = "/Foobj/sources/subdir_0/file_1.obj"

\* the include directories that hold at least one header
PopulatedIncludeDirs == {Parent(f) : f \in {g \in DOMAIN files : Under(g, INCLUDES_DIR)}}

\* C8: generate_headers returns a sorted list without duplicates of exactly
\* the includes/ subdirectories that hold a header, and every compile entry
\* carries one -I flag per element of it, in its order.
C8_IncludeDirs ==
    /\ pc = "compile_commands" =>
          /\ \A k \in 1..(Len(include_dirs) - 1) : PathLess(include_dirs[k], include_dirs[k + 1])
          /\ Range(include_dirs) = PopulatedIncludeDirs
          /\ \A x \in Range(include_dirs) : FilesIn(x) # {}
    /\ (Done /\ S >= 1) =>
          LET first == IncludeDirsOf(Database[1].command)
          IN /\ \A m \in 1..(Len(first) - 1) :
                   PathLess(Join(PROJECT_DIR, first[m]), Join(PROJECT_DIR, first[m + 1]))
             /\ {Join(PROJECT_DIR, first[m]) : m \in 1..Len(first)} = PopulatedIncludeDirs
             /\ \A k \in 1..Len(Database) : IncludeDirsOf(Database[k].command) = first

\* generate_headers has returned eleven directories, subdir_10 sorted between
\* subdir_1 and subdir_2
C8_Witness ==
    /\ pc = "compile_commands"
    /\ Len(include_dirs) = 11
    /\ EndsWith(include_dirs[2], "includes/subdir_1")
    /\ EndsWith(include_dirs[3], "includes/subdir_10")
    /\ EndsWith(include_dirs[4], "includes/subdir_2")

\* C9: every subdirectory a run creates has an index below D, so at most D
\* source subdirectories and at most D header subdirectories are populated.
C9_SubdirBound ==
    (pc = "compile_commands" \/ Done) =>
       \A top \in {SOURCES_DIR, INCLUDES_DIR} :
          /\ \A b \in SubdirsOf(top) : \E k \in 0..(D - 1) : b = Join(top, Subdir(k))
          /\ Cardinality(SubdirsOf(top)) <= D

\* a successful run that fills all D source subdirectories and fewer header
\* subdirectories
C9_Witness ==
    /\ Done
    /\ S = 3 /\ H = 4 /\ D = 3
    /\ Cardinality(SubdirsOf(SOURCES_DIR)) = 3
    /\ Cardinality(SubdirsOf(INCLUDES_DIR)) = 2

\* C10: after a successful run the header each source includes is found
\* through the -I directories of that source's command, in exactly one of
\* them: includes/subdir_{(i mod H) div ceil(H/D)}.
C10_IncludeResolves ==
    (Done /\ H >= 1) =>
       \A k \in 1..Len(Database) :
          LET src == Join(PROJECT_DIR, Database[k].file)
              hdr == IncludedHeader(files[src])
              ds == IncludeDirsOf(Database[k].command)
              found == {m \in 1..Len(ds) : Join(Join(PROJECT_DIR, ds[m]), hdr) \in DOMAIN files}
          IN /\ hdr = HdrFile((k - 1) % H)
             /\ Cardinality(found) = 1
             /\ \A m \in found :
                   ds[m] = Join("includes", Subdir(((k - 1) % H) \div CeilDiv(H, D)))

\* a successful run where a source's header is not in the first include
\* directory
C10_Witness ==
    /\ Done
    /\ S = 2 /\ H = 2 /\ D = 2
    /\ Join(INCLUDES_DIR, "subdir_1/file_1.h") \in DOMAIN files
    /\ IncludeDirsOf(Database[2].command) = <<"includes/subdir_0", "includes/subdir_1">>

====
